---- MODULE Spec2Model ----
(***************************************************************************)
(* Weekly roster solver: template and demand derivation, the CP model      *)
(* built by RosterSolver (variables, hard constraints, the domains of the  *)
(* objective's auxiliary variables), the result extracted by solve(), and  *)
(* the post-solve trimming pass apply_trimming.                            *)
(*                                                                         *)
(* Conventions.  A time "HH:MM" is the pair <<HH, MM>>.  A text value that *)
(* passes through str.lower()/str.upper() is a record [text, caps]: text   *)
(* is its lowercase form and caps says whether it holds an uppercase       *)
(* letter.  An hours value (a Python float) is an integer number of        *)
(* 1/300 hour, which represents minutes/60 and two-decimal rounding        *)
(* exactly.  None is the integer -1 and a missing shop id is 0.            *)
(***************************************************************************)
EXTENDS Integers, Sequences, FiniteSets, TLC

VARIABLES request,            \* the body of the solve request (read-only)
          employees,          \* RosterSolver.employees
          templates,          \* RosterSolver.templates
          demands,            \* RosterSolver.demands
          special_demands,    \* RosterSolver.special_demands
          employee_shops,     \* RosterSolver.employee_shops
          employee_leave_days,\* RosterSolver.employee_leave_days
          fixed_days_off,     \* RosterSolver.fixed_days_off
          shop_configs,       \* RosterSolver.shop_configs
          shift_vars,         \* RosterSolver.shift_vars (keys, in insertion order)
          solver_status,      \* the name of the CP engine's status in solve()
          calls,              \* the methods solve() has called, in order
          result,             \* the dict returned by solve(), then trimmed in place
          pc,                 \* "rejected" | "built" | "solved"
          passes              \* number of apply_trimming passes run on result

vars == <<request, employees, templates, demands, special_demands, employee_shops,
          employee_leave_days, fixed_days_off, shop_configs, shift_vars,
          solver_status, calls, result, pc, passes>>

-----------------------------------------------------------------------------
(* Bounds of the model *)

MaxCrew == 3        \* employees of a one-day crew scenario
BigCrew == 11       \* employees of the large-crew scenario
MaxPasses == 2      \* apply_trimming passes run on one result

-----------------------------------------------------------------------------
(* Generic helpers *)

None == -1

RECURSIVE Flatten(_)
Flatten(ss) == IF ss = <<>> THEN <<>> ELSE Head(ss) \o Flatten(Tail(ss))

RECURSIVE SumSeq(_)
SumSeq(s) == IF s = <<>> THEN 0 ELSE Head(s) + SumSeq(Tail(s))

Range(s) == {s[i] : i \in 1..Len(s)}

Max2(a, b) == IF a >= b THEN a ELSE b
Min2(a, b) == IF a <= b THEN a ELSE b

Str(t) == [text |-> t, caps |-> FALSE]
Cap(t) == [text |-> t, caps |-> TRUE]

\* str.lower()
Lower(s) == [text |-> s.text, caps |-> FALSE]

\* str.upper() of a shift-type text
Upper(s) ==
    CASE s.text = "am" -> "AM"
      [] s.text = "pm" -> "PM"
      [] s.text = "full" -> "FULL"
      [] OTHER -> "?"

-----------------------------------------------------------------------------
(* Constants of roster_solver.py *)

DAYS_OF_WEEK == <<"monday", "tuesday", "wednesday", "thursday", "friday",
                  "saturday", "sunday">>

DayIndexes == 0..6

STUDENT_MAX_HOURS == 20
MAX_WEEKLY_HOURS == 60

DAY_NAME_MAP(t) ==
    CASE t \in {"mon", "monday"} -> 0
      [] t \in {"tue", "tuesday"} -> 1
      [] t \in {"wed", "wednesday"} -> 2
      [] t \in {"thu", "thursday"} -> 3
      [] t \in {"fri", "friday"} -> 4
      [] t \in {"sat", "saturday"} -> 5
      [] t \in {"sun", "sunday"} -> 6
      [] OTHER -> None

\* get_day_index: unknown names fall back to 0 (Monday)
get_day_index(day_name) ==
    LET idx == DAY_NAME_MAP(Lower(day_name).text)
    IN  IF idx = None THEN 0 ELSE idx

parse_time(t) == t[1] * 60 + t[2]

format_time(minutes) == <<minutes \div 60, minutes % 60>>

\* calculate_hours returns (end - start) / 60.0; here in 1/300 hour
calculate_hours(start, end) == 5 * (parse_time(end) - parse_time(start))

\* int(template.hours * 10)
HoursX10(hours) == hours \div 30

-----------------------------------------------------------------------------
(* Template building: build_templates_from_config *)

NoEntry == [present |-> FALSE]

\* day_config_by_index.get(day_idx): the last weeklySchedule entry of that day
DayConfig(staffing, day_idx) ==
    LET ws == IF staffing.present THEN staffing.weeklySchedule ELSE <<>>
        hits == {i \in 1..Len(ws) : get_day_index(ws[i].day) = day_idx}
    IN  IF hits = {} THEN NoEntry
        ELSE ws[CHOOSE i \in hits : \A j \in hits : j <= i]

\* the legacy requirement of the day: the first requirements entry of that day
DayReq(config, day_idx) ==
    LET rq == config.requirements
        hits == {i \in 1..Len(rq) : get_day_index(rq[i].day) = day_idx}
    IN  IF hits = {} THEN NoEntry
        ELSE rq[CHOOSE i \in hits : \A j \in hits : i <= j]

CoverageModeOf(config) ==
    IF config.staffingConfig.present THEN config.staffingConfig.coverageMode
    ELSE "flexible"

Template(config, day_idx, type, start, end, trimmed, mandatory) ==
    [id |-> <<config.id, day_idx, type>>,
     shop_id |-> config.id,
     day_index |-> day_idx,
     shift_type |-> type,
     start_time |-> start,
     end_time |-> end,
     hours |-> calculate_hours(start, end),
     is_trimmed |-> trimmed,
     is_mandatory |-> mandatory]

\* the AM_TRIMMED template of a day, when trimming allows one
TrimmedAmTemplates(config, day_idx) ==
    LET trim_cfg == config.trimming
        open_mins == parse_time(config.openTime)
        close_mins == parse_time(config.closeTime)
        midpoint == (open_mins + close_mins) \div 2
        trimmed_am_start == format_time(open_mins + trim_cfg.trimFromStart * 60)
        trimmed_am_end == format_time(midpoint + 30 - trim_cfg.trimFromEnd * 60)
        trimmed_hours == calculate_hours(trimmed_am_start, trimmed_am_end)
    IN  IF trim_cfg.enabled /\ trim_cfg.trimAM /\ ~config.canBeSolo
           /\ trimmed_hours >= trim_cfg.minShiftHours * 300
        THEN <<Template(config, day_idx, "AM_TRIMMED", trimmed_am_start,
                        trimmed_am_end, TRUE, FALSE)>>
        ELSE <<>>

\* the body of the loop "for day_idx in range(7)"
DayTemplates(config, day_idx) ==
    LET open_mins == parse_time(config.openTime)
        close_mins == parse_time(config.closeTime)
        midpoint == (open_mins + close_mins) \div 2
        custom == config.sunday.customHours
        useCustom == day_idx = 6 /\ custom.enabled
        day_am_start == IF useCustom THEN custom.openTime ELSE config.openTime
        day_am_end == IF useCustom THEN custom.closeTime ELSE format_time(midpoint + 30)
        day_pm_start == IF useCustom THEN custom.openTime ELSE format_time(midpoint - 30)
        day_pm_end == IF useCustom THEN custom.closeTime ELSE config.closeTime
        day_config == DayConfig(config.staffingConfig, day_idx)
        day_req == DayReq(config, day_idx)
        is_mandatory == IF day_config.present THEN day_config.isMandatory
                        ELSE IF day_req.present THEN day_req.isMandatory
                        ELSE FALSE
        am == Template(config, day_idx, "AM", day_am_start, day_am_end, FALSE, is_mandatory)
        pm == Template(config, day_idx, "PM", day_pm_start, day_pm_end, FALSE, is_mandatory)
        full == Template(config, day_idx, "FULL", day_am_start, day_pm_end, FALSE, is_mandatory)
        coverage_mode == CoverageModeOf(config)
    IN  IF day_idx = 6 /\ config.sunday.closed THEN <<>>
        ELSE IF coverage_mode = "fullDayOnly" THEN <<full>>
        ELSE IF coverage_mode = "split"
             THEN <<am, pm>> \o TrimmedAmTemplates(config, day_idx)
        ELSE <<am, pm, full>> \o TrimmedAmTemplates(config, day_idx)

\* SpecialShiftDemand entries of one shop
ShopSpecialDemands(config) ==
    LET sp == SelectSeq(config.specialShifts, LAMBDA x : x.employeeId # 0)
    IN  [i \in 1..Len(sp) |->
            [employee_id |-> sp[i].employeeId,
             shop_id |-> config.id,
             day_index |-> get_day_index(sp[i].dayOfWeek),
             shift_type |-> Upper(sp[i].shiftType)]]

\* returns <<templates, special_demands>>
build_templates_from_config(shops) ==
    LET active == SelectSeq(shops, LAMBDA c : c.isActive)
    IN  <<Flatten([i \in 1..Len(active) |->
                     Flatten([d \in 1..7 |-> DayTemplates(active[i], d - 1)])]),
          Flatten([i \in 1..Len(active) |-> ShopSpecialDemands(active[i])])>>

-----------------------------------------------------------------------------
(* Demand building: build_demands_from_config *)

\* the DemandEntry of one (shop, day) before the Sunday limit
DayDemand(config, day_idx) ==
    LET staffing == config.staffingConfig
        coverage_mode == CoverageModeOf(config)
        day_config == DayConfig(staffing, day_idx)
        day_req == DayReq(config, day_idx)
        base == [shop_id |-> config.id, day_index |-> day_idx,
                 full_day_counts_as_both |->
                     IF staffing.present THEN staffing.fullDayCountsAsBoth ELSE TRUE,
                 coverage_mode |-> coverage_mode]
    IN  IF day_config.present
        THEN base @@
             [min_am |-> day_config.minAM, min_pm |-> day_config.minPM,
              target_am |-> IF day_config.targetAM = None THEN day_config.minAM
                            ELSE day_config.targetAM,
              target_pm |-> IF day_config.targetPM = None THEN day_config.minPM
                            ELSE day_config.targetPM,
              min_full_day |-> day_config.minFullDay,
              max_staff |-> day_config.maxStaff,
              is_mandatory |-> day_config.isMandatory,
              allow_full_day |-> coverage_mode # "split"]
        ELSE IF day_req.present
        THEN base @@
             [min_am |-> day_req.amStaff, min_pm |-> day_req.pmStaff,
              target_am |-> day_req.amStaff, target_pm |-> day_req.pmStaff,
              min_full_day |-> 0,
              max_staff |-> IF day_req.maxStaff \in {None, 0} THEN 10
                            ELSE day_req.maxStaff,
              is_mandatory |-> day_req.isMandatory,
              allow_full_day |-> day_req.allowFullDay]
        ELSE base @@
             [min_am |-> 1, min_pm |-> 1, target_am |-> 1, target_pm |-> 1,
              min_full_day |-> 0, max_staff |-> 10, is_mandatory |-> FALSE,
              allow_full_day |-> coverage_mode # "split"]

\* the Sunday limit applied to max_staff alone
ApplySundayMax_OnlyMax(config, d) ==
    LET sunday_max == config.sunday.maxStaff
    IN  IF d.day_index = 6 /\ sunday_max # None
        THEN [d EXCEPT !.max_staff = Min2(@, sunday_max)]
        ELSE d

\* "Apply Sunday max staff limit"
ApplySundayMax(config, d) ==
    LET sunday_max == config.sunday.maxStaff
    IN  IF d.day_index = 6 /\ sunday_max # None
        THEN [d EXCEPT !.target_am = Min2(@, sunday_max),
                       !.target_pm = Min2(@, sunday_max),
                       !.min_am = Min2(@, sunday_max),
                       !.min_pm = Min2(@, sunday_max),
                       !.max_staff = Min2(@, sunday_max)]
        ELSE d

\* the demand entries of a shop with no test of the Sunday closed flag
ShopDemands_AllWeek(config) ==
    [d \in 1..7 |-> ApplySundayMax(config, DayDemand(config, d - 1))]

ShopDemands(config) ==
    LET days == IF config.sunday.closed THEN 6 ELSE 7
    IN  [d \in 1..days |-> ApplySundayMax(config, DayDemand(config, d - 1))]

build_demands_from_config(shops) ==
    LET active == SelectSeq(shops, LAMBDA c : c.isActive)
    IN  Flatten([i \in 1..Len(active) |-> ShopDemands(active[i])])

-----------------------------------------------------------------------------
(* The solve route: routes/roster_solve.py solve_roster *)

\* the employee list without the isActive test
RouteEmployees_KeepInactive(req) ==
    LET kept == SelectSeq(req.employees,
                    LAMBDA e : /\ e.id \notin req.excludedEmployeeIds
                               /\ ~e.excludeFromRoster)
    IN  [i \in 1..Len(kept) |->
            [id |-> kept[i].id,
             name |-> kept[i].name,
             employment_type |-> kept[i].employmentType,
             weekly_hours |-> kept[i].weeklyHours,
             is_active |-> TRUE,
             am_only |-> kept[i].name \in req.amOnlyEmployees,
             primary_shop_id |-> kept[i].primaryShopId,
             secondary_shop_ids |-> kept[i].secondaryShopIds]]

\* "Build Employee objects": excluded, inactive and excludeFromRoster are skipped
RouteEmployees(req) ==
    LET kept == SelectSeq(req.employees,
                    LAMBDA e : /\ e.id \notin req.excludedEmployeeIds
                               /\ e.isActive
                               /\ ~e.excludeFromRoster)
    IN  [i \in 1..Len(kept) |->
            [id |-> kept[i].id,
             name |-> kept[i].name,
             employment_type |-> kept[i].employmentType,
             weekly_hours |-> kept[i].weeklyHours,
             is_active |-> TRUE,
             am_only |-> kept[i].name \in req.amOnlyEmployees,
             primary_shop_id |-> kept[i].primaryShopId,
             secondary_shop_ids |-> kept[i].secondaryShopIds]]

\* the ShopAssignment list, as the set of (employee_id, shop_id) pairs
RouteAssignments(req) ==
    UNION {{<<id, req.shops[i].id>> :
              id \in {x \in Range(req.shops[i].assignedEmployees) :
                         x # 0 /\ x \notin req.excludedEmployeeIds}} :
           i \in 1..Len(req.shops)} \cup
    UNION {{<<e.id, sid>> :
              sid \in {x \in ({e.primary_shop_id} \cup Range(e.secondary_shop_ids)) : x # 0}} :
           e \in Range(RouteEmployees(req))}

\* "Build LeaveRequest objects": the approved requests of every employee of
\* the request; a date is the number of days from weekStart
RouteLeaveRequests(req) ==
    Flatten([i \in 1..Len(req.employees) |->
        LET approved == SelectSeq(req.employees[i].leaveRequests,
                                  LAMBDA l : l.status = "approved")
        IN  [j \in 1..Len(approved) |->
                [employee_id |-> req.employees[i].id,
                 start_date |-> approved[j].startDate,
                 end_date |-> approved[j].endDate,
                 status |-> "approved"]]])

\* one entry of a fixedDaysOff list: an int is kept, a known day name is mapped
FixedDayIndices(days) ==
    LET ok == SelectSeq(days, LAMBDA d :
                  d.kind = "int" \/ DAY_NAME_MAP(Lower(d.name).text) # None)
    IN  [i \in 1..Len(ok) |->
            IF ok[i].kind = "int" THEN ok[i].idx
            ELSE DAY_NAME_MAP(Lower(ok[i].name).text)]

\* "Parse fixed days off": keys are lowercased, empty lists are dropped,
\* a later entry with the same lowercased key replaces an earlier one
RouteFixedDaysOff(req) ==
    LET raw == req.fixedDaysOff
        good == {i \in 1..Len(raw) : FixedDayIndices(raw[i].days) # <<>>}
        keys == {Lower(raw[i].key) : i \in good}
    IN  [k \in keys |->
            LET hits == {i \in good : Lower(raw[i].key) = k}
            IN  Range(FixedDayIndices(raw[CHOOSE i \in hits : \A j \in hits : j <= i].days))]

-----------------------------------------------------------------------------
(* RosterSolver.__init__ and _build_variables *)

\* employee_shops: employee id -> shop ids, for the ids that have an assignment
InitEmployeeShops(assignments) ==
    [id \in {a[1] : a \in assignments} |-> {a[2] : a \in {b \in assignments : b[1] = id}}]

\* the leave days with range(6) in place of range(7): Sunday is left out
InitLeaveDays_NoSunday(leave_requests) ==
    [id \in {lr.employee_id : lr \in {x \in Range(leave_requests) : x.status = "approved"}} |->
        0..5]

\* employee_leave_days: "for day_idx in range(7)" adds every day of the week
\* for an approved request, whatever its dates
InitLeaveDays(leave_requests) ==
    [id \in {lr.employee_id : lr \in {x \in Range(leave_requests) : x.status = "approved"}} |->
        0..6]

\* emp.name.lower()
EmpKey(emp) == Lower(emp.name)

\* the shops an employee can work at
EmpShops(emp) ==
    (IF emp.id \in DOMAIN employee_shops THEN employee_shops[emp.id] ELSE {})
    \cup {x \in ({emp.primary_shop_id} \cup Range(emp.secondary_shop_ids)) : x # 0}

OnLeave(emp, template) ==
    emp.id \in DOMAIN employee_leave_days
    /\ template.day_index \in employee_leave_days[emp.id]

OnFixedDayOff(emp, template) ==
    EmpKey(emp) \in DOMAIN fixed_days_off
    /\ template.day_index \in fixed_days_off[EmpKey(emp)]

\* the eligibility test without the AM-only check
Eligible_NoAmOnly(emp, template) ==
    /\ emp.is_active
    /\ template.shop_id \in EmpShops(emp)
    /\ ~OnLeave(emp, template)
    /\ ~OnFixedDayOff(emp, template)

\* whether _build_variables creates the variable of (emp, template)
Eligible(emp, template) ==
    /\ emp.is_active
    /\ template.shop_id \in EmpShops(emp)
    /\ ~OnLeave(emp, template)
    /\ ~OnFixedDayOff(emp, template)
    /\ ~(emp.am_only /\ template.shift_type \in {"PM", "FULL"})

\* the keys (emp.id, template.id) of shift_vars, in insertion order
BuildVariables ==
    Flatten([i \in 1..Len(employees) |->
        LET ts == SelectSeq(templates, LAMBDA t : Eligible(employees[i], t))
        IN  [j \in 1..Len(ts) |-> <<employees[i].id, ts[j].id>>]])

\* next((t for t in self.templates if t.id == template_id), None)
TemplateById(tid) ==
    templates[CHOOSE i \in 1..Len(templates) :
                 /\ templates[i].id = tid
                 /\ \A j \in 1..(i - 1) : templates[j].id # tid]

-----------------------------------------------------------------------------------------------------------------------------------------------------
(* The CP model.  V is the set of keys of shift_vars.  Each constraint     *)
(* method first collects the variables it ranges over (the *Vars and       *)
(* *Terms operators) and then adds linear constraints over them; an        *)
(* assignment a is the set of keys whose BoolVar is 1, so sum(vars) is     *)
(* Cardinality(a \cap vars).                                               *)

\* the variables of one (shop, day) whose template has one of the types
VarsAt(V, shop_id, day_idx, types) ==
    {k \in V : LET t == TemplateById(k[2])
               IN  /\ t.shop_id = shop_id
                   /\ t.day_index = day_idx
                   /\ t.shift_type \in types}

\* "Collect variables that contribute to coverage" of one demand
CoverageVars(V, demand) ==
    [am_vars |-> VarsAt(V, demand.shop_id, demand.day_index, {"AM"}),
     pm_vars |-> VarsAt(V, demand.shop_id, demand.day_index, {"PM"}),
     full_vars |-> VarsAt(V, demand.shop_id, demand.day_index, {"FULL"}),
     trimmed_am_vars |-> VarsAt(V, demand.shop_id, demand.day_index, {"AM_TRIMMED"})]

CanBeSolo(shop_id) ==
    IF shop_id \in DOMAIN shop_configs THEN shop_configs[shop_id].canBeSolo ELSE FALSE

\* _add_coverage_constraints, "HARD CONSTRAINTS (MINIMUM STAFFING)"
MinimumStaffing(cv, a, demand) ==
    LET am_coverage == IF demand.full_day_counts_as_both
                       THEN cv.am_vars \cup cv.full_vars \cup cv.trimmed_am_vars
                       ELSE cv.am_vars \cup cv.trimmed_am_vars
        pm_coverage == IF demand.full_day_counts_as_both
                       THEN cv.pm_vars \cup cv.full_vars
                       ELSE cv.pm_vars
        all_coverage == cv.am_vars \cup cv.pm_vars \cup cv.full_vars \cup cv.trimmed_am_vars
        sum(S) == Cardinality(a \cap S)
        min_required == Max2(Max2(demand.min_am, demand.min_pm),
                             Max2(demand.min_full_day, 1))
    IN  IF demand.coverage_mode = "fullDayOnly"
        THEN cv.full_vars # {} =>
                /\ sum(cv.full_vars) >= min_required
                /\ demand.max_staff < 10 => sum(cv.full_vars) <= demand.max_staff
        ELSE IF demand.coverage_mode = "split"
        THEN /\ (am_coverage # {} /\ demand.min_am > 0) => sum(am_coverage) >= demand.min_am
             /\ (pm_coverage # {} /\ demand.min_pm > 0) => sum(pm_coverage) >= demand.min_pm
        ELSE IF CanBeSolo(demand.shop_id)
        THEN all_coverage # {} => sum(all_coverage) >= 1
        ELSE /\ (am_coverage # {} /\ demand.min_am > 0) => sum(am_coverage) >= demand.min_am
             /\ (pm_coverage # {} /\ demand.min_pm > 0) => sum(pm_coverage) >= demand.min_pm
             /\ all_coverage # {} => sum(all_coverage) >= 1

\* _add_coverage_constraints, "MAX STAFF CONSTRAINT": one indicator per
\* employee with a variable at the (shop, day), the max of those variables
MaxStaff(cv, a, demand) ==
    LET emp_works == cv.am_vars \cup cv.pm_vars \cup cv.full_vars \cup cv.trimmed_am_vars
    IN  demand.max_staff < 10 =>
            Cardinality({k[1] : k \in a \cap emp_works}) <= demand.max_staff

\* _build_objective: over_am and over_pm are IntVars of domain 0..10 with
\* over >= sum(effective) - target, which bounds the sums
OverCoverageDomain(cv, a, demand) ==
    LET full == IF demand.full_day_counts_as_both THEN cv.full_vars ELSE {}
        am_effective == cv.am_vars \cup cv.trimmed_am_vars \cup full
        pm_effective == cv.pm_vars \cup full
    IN  /\ am_effective # {} => Cardinality(a \cap am_effective) - demand.target_am <= 10
        /\ pm_effective # {} => Cardinality(a \cap pm_effective) - demand.target_pm <= 10

\* "Match shift type" of _add_special_request_constraints
TypeMatches(special_type, template_type) ==
    \/ special_type = "FULL" /\ template_type = "FULL"
    \/ special_type = "AM" /\ template_type \in {"AM", "AM_TRIMMED"}
    \/ special_type = "PM" /\ template_type = "PM"

\* matching_vars: the variables of the request's employee on a matching template
MatchingVars(V, special) ==
    {k \in V : /\ k[1] = special.employee_id
               /\ \E i \in 1..Len(templates) :
                     /\ templates[i].id = k[2]
                     /\ templates[i].shop_id = special.shop_id
                     /\ templates[i].day_index = special.day_index
                     /\ TypeMatches(special.shift_type, templates[i].shift_type)}

\* _add_special_request_constraints: a request with no matching variable
\* adds no constraint (a warning is printed)
SpecialRequest(matching_vars, a) ==
    matching_vars # {} => Cardinality(a \cap matching_vars) >= 1

\* day_shifts: the variables of an employee on one day
DayShiftVars(V, emp, day_idx) ==
    {k \in V : k[1] = emp.id /\ TemplateById(k[2]).day_index = day_idx}

\* all_shifts: the variables of an employee
AllShiftVars(V, emp) == {k \in V : k[1] = emp.id}

\* int(template.hours * 10) of each variable of an employee
HoursTerms(V, emp) ==
    [k \in AllShiftVars(V, emp) |-> HoursX10(TemplateById(k[2]).hours)]

RECURSIVE SumTerms(_, _)
SumTerms(terms, keys) ==
    IF keys = {} THEN 0
    ELSE LET k == CHOOSE x \in keys : TRUE
         IN  terms[k] + SumTerms(terms, keys \ {k})

\* the per-day constraint with the bound 2 in place of 1
OneShiftPerDay_Two(day_shifts, a) ==
    \A day_idx \in DayIndexes : Cardinality(a \cap day_shifts[day_idx]) <= 2

\* _add_employee_constraints, "One shift per day per employee"
OneShiftPerDay(day_shifts, a) ==
    \A day_idx \in DayIndexes : Cardinality(a \cap day_shifts[day_idx]) <= 1

\* the weekly constraint with the bound 7 in place of 6
OneDayOff_Seven(all_shifts, a) ==
    Cardinality(a \cap all_shifts) <= 7

\* _add_employee_constraints, "At least one day off per week"
OneDayOff(all_shifts, a) ==
    Cardinality(a \cap all_shifts) <= 6

\* _add_employee_constraints, "Student hours cap"
StudentCap(total_hours_terms, a, emp) ==
    emp.employment_type = "student" =>
        SumTerms(total_hours_terms, a \cap DOMAIN total_hours_terms)
            <= STUDENT_MAX_HOURS * 10

\* _build_objective: total_hours_x10 is an IntVar of domain 0..600,
\* under_hours of 0..500, and for non-students over_hours of 0..300 and
\* excessive_ot of 0..200, each tied to the employee's hours
HoursDomain(hours_terms, a, emp) ==
    LET total_hours_x10 == SumTerms(hours_terms, a \cap DOMAIN hours_terms)
        target_hours_x10 == emp.weekly_hours * 10
    IN  DOMAIN hours_terms # {} =>
            /\ total_hours_x10 <= MAX_WEEKLY_HOURS * 10
            /\ target_hours_x10 - total_hours_x10 <= 500
            /\ emp.employment_type # "student" =>
                  /\ total_hours_x10 - target_hours_x10 <= 300
                  /\ total_hours_x10 - 500 <= 200

ActiveEmployees == {i \in 1..Len(employees) : employees[i].is_active}

\* the variable collections of every constraint of the model
BuildModel(V) ==
    [coverage |-> [i \in 1..Len(demands) |-> CoverageVars(V, demands[i])],
     special |-> [i \in 1..Len(special_demands) |-> MatchingVars(V, special_demands[i])],
     day_shifts |-> [i \in ActiveEmployees |->
                        [d \in DayIndexes |-> DayShiftVars(V, employees[i], d)]],
     all_shifts |-> [i \in ActiveEmployees |-> AllShiftVars(V, employees[i])],
     hours_terms |-> [i \in ActiveEmployees |-> HoursTerms(V, employees[i])]]

\* a satisfies every constraint solve() adds to the model
Feasible(m, a) ==
    /\ \A i \in ActiveEmployees :
          /\ OneShiftPerDay(m.day_shifts[i], a)
          /\ OneDayOff(m.all_shifts[i], a)
          /\ StudentCap(m.hours_terms[i], a, employees[i])
          /\ HoursDomain(m.hours_terms[i], a, employees[i])
    /\ \A i \in 1..Len(demands) :
          /\ MinimumStaffing(m.coverage[i], a, demands[i])
          /\ MaxStaff(m.coverage[i], a, demands[i])
          /\ OverCoverageDomain(m.coverage[i], a, demands[i])
    /\ \A i \in 1..Len(special_demands) : SpecialRequest(m.special[i], a)

-----
(* RosterSolver.solve: the result dicts *)

NoResult == [success |-> FALSE, status |-> "NONE", shifts |-> <<>>, employeeHours |-> <<>>]

\* a failure dict that carries a fixed word in place of the status name
FailureResult_NoName(status) ==
    [success |-> FALSE, status |-> "FAILED", shifts |-> <<>>, employeeHours |-> <<>>]

FailureResult(status) ==
    [success |-> FALSE, status |-> status, shifts |-> <<>>, employeeHours |-> <<>>]

\* the shift dict of one chosen variable
ShiftOf(k) ==
    LET template == TemplateById(k[2])
    IN  [employeeId |-> k[1],
         shopId |-> template.shop_id,
         dayIndex |-> template.day_index,
         shiftType |-> template.shift_type,
         startTime |-> template.start_time,
         endTime |-> template.end_time,
         hours |-> template.hours,
         isTrimmed |-> FALSE]

\* "Extract solution": the chosen variables in the order of shift_vars
ExtractShifts(sv, a) ==
    LET chosen == SelectSeq(sv, LAMBDA k : k \in a)
    IN  [i \in 1..Len(chosen) |-> ShiftOf(chosen[i])]

\* employee_hours: 0.0 for every employee plus the hours of each shift
ExtractHours(shifts) ==
    [id \in {employees[i].id : i \in 1..Len(employees)} |->
        LET mine == SelectSeq(shifts, LAMBDA s : s.employeeId = id)
        IN  SumSeq([i \in 1..Len(mine) |-> mine[i].hours])]

SuccessResult(status, sv, a) ==
    [success |-> TRUE, status |-> status,
     shifts |-> ExtractShifts(sv, a),
     employeeHours |-> ExtractHours(ExtractShifts(sv, a))]

-----------------------------------------------------------------------------
(* utils.py: apply_trimming *)

max_first_am_trim == 1
max_last_pm_trim == 2

_time_to_minutes(hhmm) == hhmm[1] * 60 + hhmm[2]

_minutes_to_time(m) == LET n == IF m < 0 THEN 0 ELSE m IN <<n \div 60, n % 60>>

\* round(x, 2) of an hours value: the nearest multiple of 0.01 h = 3/300 h
Round2(h) == 3 * ((2 * h + 3) \div 6)

\* day_shifts of the (shop, date) group of shift i, as indices
DayShifts(shifts, i) ==
    {j \in 1..Len(shifts) : /\ shifts[j].shopId = shifts[i].shopId
                           /\ shifts[j].dayIndex = shifts[i].dayIndex}

Openers(shifts, i) ==
    {j \in DayShifts(shifts, i) : shifts[j].shiftType \in {"AM", "AM_TRIMMED"}}

Closers(shifts, i) ==
    {j \in DayShifts(shifts, i) : shifts[j].shiftType \in {"PM", "FULL"}}

HasFull(shifts, i) == \E j \in DayShifts(shifts, i) : shifts[j].shiftType = "FULL"

\* min(openers, key=start): the first of the earliest starters
FirstOpener(shifts, i) ==
    CHOOSE j \in Openers(shifts, i) : \A l \in Openers(shifts, i) :
        \/ _time_to_minutes(shifts[j].startTime) < _time_to_minutes(shifts[l].startTime)
        \/ /\ _time_to_minutes(shifts[j].startTime) = _time_to_minutes(shifts[l].startTime)
           /\ j <= l

\* max(closers, key=end): the first of the latest finishers
LastCloser(shifts, i) ==
    CHOOSE j \in Closers(shifts, i) : \A l \in Closers(shifts, i) :
        \/ _time_to_minutes(shifts[j].endTime) > _time_to_minutes(shifts[l].endTime)
        \/ /\ _time_to_minutes(shifts[j].endTime) = _time_to_minutes(shifts[l].endTime)
           /\ j <= l

\* shift i is the opener whose start the pass moves
OpenerTrimmed(shifts, i) ==
    /\ Cardinality(Openers(shifts, i)) > 1
    /\ i = FirstOpener(shifts, i)

\* the closer test without "Don't trim below reasonable end time"
CloserTrimmed_NoNoon(shifts, i) ==
    /\ Closers(shifts, i) # {}
    /\ HasFull(shifts, i) \/ Cardinality(Openers(shifts, i)) > 1
    /\ i = LastCloser(shifts, i)

\* shift i is the closer whose end the pass moves
CloserTrimmed(shifts, i) ==
    /\ Closers(shifts, i) # {}
    /\ HasFull(shifts, i) \/ Cardinality(Openers(shifts, i)) > 1
    /\ i = LastCloser(shifts, i)
    /\ _time_to_minutes(shifts[i].endTime) - max_last_pm_trim * 60
          >= _time_to_minutes(<<12, 0>>)

\* a trim that moves the times and sets the flag but keeps the hours
TrimShift_KeepHours(shifts, i) ==
    IF OpenerTrimmed(shifts, i)
    THEN [shifts[i] EXCEPT
            !.startTime = _minutes_to_time(_time_to_minutes(@) + max_first_am_trim * 60),
            !.isTrimmed = TRUE]
    ELSE IF CloserTrimmed(shifts, i)
    THEN [shifts[i] EXCEPT
            !.endTime = _minutes_to_time(_time_to_minutes(@) - max_last_pm_trim * 60),
            !.isTrimmed = TRUE]
    ELSE shifts[i]

\* the shift after one pass: the opener's start or the closer's end is moved
TrimShift(shifts, i) ==
    IF OpenerTrimmed(shifts, i)
    THEN [shifts[i] EXCEPT
            !.startTime = _minutes_to_time(_time_to_minutes(@) + max_first_am_trim * 60),
            !.hours = Round2(@ - max_first_am_trim * 300),
            !.isTrimmed = TRUE]
    ELSE IF CloserTrimmed(shifts, i)
    THEN [shifts[i] EXCEPT
            !.endTime = _minutes_to_time(_time_to_minutes(@) - max_last_pm_trim * 60),
            !.hours = Round2(@ - max_last_pm_trim * 300),
            !.isTrimmed = TRUE]
    ELSE shifts[i]

\* employee_hours[emp_id] = round(employee_hours[emp_id] - trim, 2), once per
\* trimmed shift of the employee (the trims are whole hours, so the order of
\* the subtractions does not change the rounded value)
TrimHours(shifts, employee_hours, id) ==
    LET nOpen == Cardinality({i \in 1..Len(shifts) :
                     shifts[i].employeeId = id /\ OpenerTrimmed(shifts, i)})
        nClose == Cardinality({i \in 1..Len(shifts) :
                     shifts[i].employeeId = id /\ CloserTrimmed(shifts, i)})
    IN  IF nOpen + nClose = 0 THEN employee_hours[id]
        ELSE Round2(employee_hours[id]) - nOpen * max_first_am_trim * 300
                                        - nClose * max_last_pm_trim * 300

\* returns the (shifts, employee_hours) pair as a record
apply_trimming(shifts, employee_hours) ==
    [shifts |-> [i \in 1..Len(shifts) |-> TrimShift(shifts, i)],
     employeeHours |-> [id \in DOMAIN employee_hours |->
                           TrimHours(shifts, employee_hours, id)]]

-----------------------------------------------------------------------------
(* Solve requests the model starts from *)

Modes == {"flexible", "split", "fullDayOnly"}

EmpName(i) == Cap("emp" \o ToString(i))

Employee(i, type, primary) ==
    [id |-> i, name |-> EmpName(i), employmentType |-> type,
     weeklyHours |-> IF type = "student" THEN 20 ELSE 40,
     isActive |-> TRUE, excludeFromRoster |-> FALSE,
     primaryShopId |-> primary, secondaryShopIds |-> <<>>,
     leaveRequests |-> <<>>]

IntDay(d) == [kind |-> "int", idx |-> d, name |-> Str("")]
NameDay(n) == [kind |-> "str", idx |-> None, name |-> n]

\* the fixedDaysOff entry that leaves employee i only the given days;
\* Tuesday is written as a day name, the other days as indices
OnlyDays(i, days) ==
    LET off == SelectSeq(<<0, 1, 2, 3, 4, 5, 6>>, LAMBDA d : d \notin days)
    IN  [key |-> EmpName(i),
         days |-> [j \in 1..Len(off) |->
                     IF off[j] = 1 THEN NameDay(Cap("tue")) ELSE IntDay(off[j])]]

ScheduleEntry(day, minAM, minPM, maxStaff) ==
    [present |-> TRUE, day |-> day, minAM |-> minAM, minPM |-> minPM,
     targetAM |-> None, targetPM |-> None, minFullDay |-> 0,
     maxStaff |-> maxStaff, isMandatory |-> FALSE]

Staffing(mode, schedule) ==
    [present |-> TRUE, coverageMode |-> mode, fullDayCountsAsBoth |-> TRUE,
     weeklySchedule |-> schedule]

Shop(id, open, close, solo, staffing, assigned) ==
    [id |-> id, isActive |-> TRUE, canBeSolo |-> solo,
     openTime |-> open, closeTime |-> close,
     minStaffAtClose |-> 1,
     staffingConfig |-> staffing,
     requirements |-> <<>>,
     trimming |-> [enabled |-> FALSE, trimAM |-> TRUE, trimFromStart |-> 1,
                   trimFromEnd |-> 2, minShiftHours |-> 4],
     sunday |-> [closed |-> FALSE, maxStaff |-> None,
                 customHours |-> [enabled |-> FALSE, openTime |-> <<8, 0>>,
                                  closeTime |-> <<13, 0>>]],
     specialShifts |-> <<>>,
     assignedEmployees |-> assigned]

Request(emps, shops, fixed) ==
    [weekStart |-> "2026-02-02", employees |-> emps, shops |-> shops,
     excludedEmployeeIds |-> {31}, amOnlyEmployees |-> {Cap("joseph")},
     fixedDaysOff |-> fixed]

Leave(status, start, end) == [status |-> status, startDate |-> start, endDate |-> end]

Special(emp_id, day, type) == [employeeId |-> emp_id, dayOfWeek |-> day, shiftType |-> type]

\* the special-shift lists tried on a one-day crew: none; employee 1 for a
\* Monday PM; employee 1 for an AM on a fixed day off; an employee that is
\* not assigned to the shop; employee 1 for a Monday FULL
CrewSpecials ==
    {<<>>,
     <<Special(1, Cap("monday"), Str("pm"))>>,
     <<Special(1, Str("tue"), Cap("am"))>>,
     <<Special(9, Str("mon"), Cap("am"))>>,
     <<Special(1, Str("mon"), Cap("full"))>>}

CrewEntries == {<<1, 1, 10>>, <<2, 1, 10>>, <<1, 1, 2>>}

\* a crew of k employees who are free on Monday only, at one shop
CrewRequest(k, mode, solo, entry, special) ==
    Request([i \in 1..k |-> Employee(i, "full-time", IF i = 1 THEN 1 ELSE 0)],
            <<[Shop(1, <<8, 0>>, <<16, 0>>, solo,
                    Staffing(mode, <<ScheduleEntry(Cap("monday"), entry[1], entry[2], entry[3])>>),
                    [i \in 1..(k - 1) |-> i + 1])
               EXCEPT !.specialShifts = special]>>,
            [i \in 1..k |-> OnlyDays(i, {0})])

CrewRequests ==
    {CrewRequest(k, mode, solo, entry, <<>>) :
        k \in 1..MaxCrew, mode \in Modes, solo \in BOOLEAN, entry \in CrewEntries}
    \cup
    {CrewRequest(k, mode, solo, <<1, 1, 10>>, special) :
        k \in 1..2, mode \in Modes, solo \in BOOLEAN, special \in CrewSpecials}

\* the same crews at a shop open 06:30-21:30 with trimming enabled, which
\* adds an AM_TRIMMED template to every day
TrimCrewRequest(k, mode, entry) ==
    Request([i \in 1..k |-> Employee(i, "full-time", 1)],
            <<[Shop(1, <<6, 30>>, <<21, 30>>, FALSE,
                    Staffing(mode, <<ScheduleEntry(Str("mon"), entry[1], entry[2], entry[3])>>),
                    <<>>)
               EXCEPT !.trimming.enabled = TRUE]>>,
            [i \in 1..k |-> OnlyDays(i, {0})])

TrimCrewRequests ==
    {TrimCrewRequest(k, mode, entry) :
        k \in 1..2, mode \in {"flexible", "split"}, entry \in CrewEntries}

\* two employees, free on Monday only, who may both work at two shops
TwoShopRequest(solo2, entry) ==
    Request(<<[Employee(1, "full-time", 1) EXCEPT !.secondaryShopIds = <<2>>],
              Employee(2, "part-time", 0)>>,
            <<Shop(1, <<8, 0>>, <<16, 0>>, FALSE,
                   Staffing("flexible", <<ScheduleEntry(Cap("monday"), entry[1], entry[2], entry[3])>>),
                   <<2>>),
              Shop(2, <<9, 0>>, <<17, 0>>, solo2, [present |-> FALSE], <<2, 31>>)>>,
            <<OnlyDays(1, {0}), OnlyDays(2, {0})>>)

TwoShopRequests == {TwoShopRequest(solo2, entry) : solo2 \in BOOLEAN, entry \in CrewEntries}

\* a full-day-only shop open all week: employee 1 is free every day, employee
\* 2 only on some days and possibly with a leave request, employee 3 on Monday
WeekLeaves ==
    {<<>>, <<Leave("pending", 5, 6)>>, <<Leave("approved", 6, 8)>>,
     <<Leave("approved", -7, -1)>>}

WeekRequest(days2, leave2) ==
    Request(<<Employee(1, "full-time", 1),
              [Employee(2, "part-time", 1) EXCEPT !.leaveRequests = leave2],
              Employee(3, "part-time", 1)>>,
            <<Shop(1, <<8, 0>>, <<16, 0>>, FALSE, Staffing("fullDayOnly", <<>>), <<>>)>>,
            <<OnlyDays(2, days2), OnlyDays(3, {0})>>)

WeekRequests ==
    {WeekRequest(days2, leave2) : days2 \in {{6}, {5, 6}, {0, 6}}, leave2 \in WeekLeaves}

\* one AM-only student at a split shop whose AM shift lasts 4h05 or 4h30
StudentRequest(close, minAM, days) ==
    [Request(<<Employee(1, "student", 1)>>,
             <<Shop(1, <<8, 0>>, close, FALSE,
                    Staffing("split", [d \in 1..7 |->
                        ScheduleEntry(Str(DAYS_OF_WEEK[d]), minAM, 1, 10)]),
                    <<>>)>>,
             <<OnlyDays(1, days)>>)
     EXCEPT !.amOnlyEmployees = {EmpName(1)}]

StudentRequests ==
    {StudentRequest(close, minAM, days) :
        close \in {<<15, 10>>, <<16, 0>>}, minAM \in {0, 1},
        days \in {0..3, 0..4, 0..5}}

\* a large crew, free on Monday only, at a full-day-only shop that needs ten
BigCrewRequest ==
    Request([i \in 1..BigCrew |-> Employee(i, "full-time", 1)],
            <<Shop(1, <<8, 0>>, <<16, 0>>, FALSE,
                   Staffing("fullDayOnly", <<ScheduleEntry(Str("monday"), 10, 10, 10)>>),
                   <<>>)>>,
            [i \in 1..BigCrew |-> OnlyDays(i, {0})])

\* one employee whose approved leave is the Monday, at a shop open all week
LeaveRequest(mode) ==
    Request(<<[Employee(1, "full-time", 1)
                  EXCEPT !.leaveRequests = <<Leave("approved", 0, 0)>>]>>,
            <<Shop(1, <<8, 0>>, <<16, 0>>, FALSE, Staffing(mode, <<>>), <<>>)>>,
            <<>>)

LeaveRequests == {LeaveRequest(mode) : mode \in Modes}

\* one employee, free on the first days of the week, at a full-day-only shop
\* whose FULL shift lasts 7h10 or 8h
OddHoursRequest(close, days) ==
    Request(<<Employee(1, "full-time", 1)>>,
            <<Shop(1, <<8, 0>>, close, FALSE, Staffing("fullDayOnly", <<>>), <<>>)>>,
            <<OnlyDays(1, days)>>)

OddHoursRequests ==
    {OddHoursRequest(close, days) :
        close \in {<<15, 10>>, <<16, 0>>}, days \in {0..0, 0..1, 0..2}}

\* a small crew whose request has no weekStart, or one that is not a
\* YYYY-MM-DD date
BadWeekRequests ==
    {[CrewRequest(k, mode, FALSE, <<1, 1, 10>>, <<>>) EXCEPT !.weekStart = ws] :
        k \in 1..2, mode \in {"flexible", "split"}, ws \in {"", "02/02/2026"}}

\* two employees free on Monday at a flexible shop; employee 1 is AM-only
\* and may be named by a special shift of type PM or FULL
AmOnlySpecials ==
    {<<>>, <<Special(1, Str("mon"), Str("pm"))>>, <<Special(1, Str("mon"), Cap("full"))>>}

AmOnlyRequest(special) ==
    [Request(<<Employee(1, "full-time", 1), Employee(2, "full-time", 1)>>,
             <<[Shop(1, <<8, 0>>, <<16, 0>>, FALSE,
                     Staffing("flexible", <<ScheduleEntry(Str("mon"), 1, 1, 10)>>),
                     <<>>)
                EXCEPT !.specialShifts = special]>>,
             <<OnlyDays(1, {0}), OnlyDays(2, {0})>>)
     EXCEPT !.amOnlyEmployees = {EmpName(1)}]

AmOnlyRequests == {AmOnlyRequest(special) : special \in AmOnlySpecials}

\* employee 1 with two employees the route must leave out: employee 31, whose
\* id is excluded, and employee 4, who is inactive or flagged
\* excludeFromRoster; both are assigned to the shop and may be named by a
\* special shift
LeftOutSpecials ==
    {<<>>, <<Special(31, Str("mon"), Str("am"))>>, <<Special(4, Str("mon"), Str("am"))>>}

LeftOutRequest(inactive, special) ==
    Request(<<Employee(1, "full-time", 1),
              Employee(31, "full-time", 1),
              [Employee(4, "full-time", 1) EXCEPT !.isActive = ~inactive,
                                                  !.excludeFromRoster = ~inactive]>>,
            <<[Shop(1, <<8, 0>>, <<16, 0>>, FALSE,
                    Staffing("flexible", <<ScheduleEntry(Str("mon"), 1, 1, 10)>>),
                    <<31, 4>>)
               EXCEPT !.specialShifts = special]>>,
            <<OnlyDays(1, {0}), OnlyDays(31, {0}), OnlyDays(4, {0})>>)

LeftOutRequests ==
    {LeftOutRequest(inactive, special) : inactive \in BOOLEAN, special \in LeftOutSpecials}

\* a weeklySchedule entry with targets and the mandatory flag
TargetEntry(day, min, target, maxStaff, mandatory) ==
    [ScheduleEntry(day, min, min, maxStaff)
        EXCEPT !.targetAM = target, !.targetPM = target, !.isMandatory = mandatory]

\* the (min, target, maxStaff, isMandatory) values tried for Saturday and Sunday
WeekendEntries ==
    {<<1, None, 10, FALSE>>, <<1, 2, 10, TRUE>>, <<2, 2, 3, FALSE>>}

\* the Sunday sub-configs tried: open as every day, closed, custom hours,
\* a Sunday maxStaff of 1
SundayConfigs ==
    LET open == [closed |-> FALSE, maxStaff |-> None,
                 customHours |-> [enabled |-> FALSE, openTime |-> <<8, 0>>,
                                  closeTime |-> <<13, 0>>]]
    IN  {open,
         [open EXCEPT !.closed = TRUE],
         [open EXCEPT !.customHours.enabled = TRUE],
         [open EXCEPT !.maxStaff = 1]}

\* a shop open 08:00-16:00 with a schedule for Saturday (no targets) and
\* Sunday, next to an inactive shop; employee 1 is free on Saturday and Sunday and may also
\* work at the inactive shop, employee 2 is free on Sunday
WeekendRequest(mode, sunday, entry) ==
    Request(<<[Employee(1, "full-time", 1) EXCEPT !.secondaryShopIds = <<2>>],
              Employee(2, "full-time", 1)>>,
            <<[Shop(1, <<8, 0>>, <<16, 0>>, FALSE,
                    Staffing(mode,
                        <<TargetEntry(Str("saturday"), entry[1], None, entry[3], entry[4]),
                          TargetEntry(Str("sun"), entry[1], entry[2], entry[3], entry[4])>>),
                    <<>>)
               EXCEPT !.sunday = sunday],
              [Shop(2, <<9, 0>>, <<17, 0>>, FALSE, [present |-> FALSE], <<2>>)
               EXCEPT !.isActive = FALSE]>>,
            <<OnlyDays(1, {5, 6}), OnlyDays(2, {6})>>)

WeekendRequests ==
    {WeekendRequest(mode, sunday, entry) :
        mode \in Modes, sunday \in SundayConfigs, entry \in WeekendEntries}

\* one full-time employee at a full-day-only shop open all week: free on the
\* first three or four days with 16-hour days and a 40-hour contract, or
\* free on Monday only with 8-hour days and a 60-hour contract
LongWeekRequest(close, days, weekly) ==
    Request(<<[Employee(1, "full-time", 1) EXCEPT !.weeklyHours = weekly]>>,
            <<Shop(1, <<6, 0>>, close, FALSE, Staffing("fullDayOnly", <<>>), <<>>)>>,
            <<OnlyDays(1, days)>>)

LongWeekRequests ==
    {LongWeekRequest(<<22, 0>>, 0..2, 40),
     LongWeekRequest(<<22, 0>>, 0..3, 40),
     LongWeekRequest(<<14, 0>>, 0..0, 60)}

Requests ==
    CrewRequests \cup TrimCrewRequests \cup TwoShopRequests \cup WeekRequests
    \cup StudentRequests \cup {BigCrewRequest} \cup LeaveRequests
    \cup OddHoursRequests \cup BadWeekRequests \cup AmOnlyRequests
    \cup LeftOutRequests \cup WeekendRequests \cup LongWeekRequests

-----------------------------------------------------------------------------
(* The state machine *)

\* "if not week_start: return ... 400" of the route
WeekStartMissing(req) == req.weekStart = ""

\* whether datetime.strptime(week_start, '%Y-%m-%d') parses the text
strptime_ok(week_start) == week_start \in {"2026-02-02"}

\* the state after the route has built the solver; a request without
\* weekStart is answered 400 before that, and the solver is never run on it
Init ==
    /\ request \in Requests
    /\ employees = RouteEmployees(request)
    /\ templates = build_templates_from_config(request.shops)[1]
    /\ special_demands = build_templates_from_config(request.shops)[2]
    /\ demands = build_demands_from_config(request.shops)
    /\ employee_shops = InitEmployeeShops(RouteAssignments(request))
    /\ employee_leave_days = InitLeaveDays(RouteLeaveRequests(request))
    /\ fixed_days_off = RouteFixedDaysOff(request)
    /\ shop_configs = [id \in {request.shops[i].id : i \in 1..Len(request.shops)} |->
                          LET hits == {i \in 1..Len(request.shops) : request.shops[i].id = id}
                          IN  request.shops[CHOOSE i \in hits : \A j \in hits : j <= i]]
    /\ shift_vars = <<>>
    /\ solver_status = "NONE"
    /\ calls = <<>>
    /\ result = NoResult
    /\ pc = IF WeekStartMissing(request) THEN "rejected" ELSE "built"
    /\ passes = 0

Inputs == <<request, employees, templates, demands, special_demands, employee_shops,
            employee_leave_days, fixed_days_off, shop_configs>>

\* the assignments of the shift variables V that satisfy every constraint
\* added to the CP model
Solutions(V) ==
    LET m == BuildModel(V)
    IN  {a \in SUBSET V : Feasible(m, a)}

\* the dict solve() returns for an engine status OPTIMAL or FEASIBLE: the
\* extraction parses week_start for every chosen variable, and the exception
\* of a failed parse is caught by solve(), which returns ERROR
Extracted(status, sv, a) ==
    IF a # {} /\ ~strptime_ok(request.weekStart)
    THEN FailureResult("ERROR")
    ELSE SuccessResult(status, sv, a)

\* the model-building methods solve() calls after _build_variables
ModelMethods ==
    <<"_add_coverage_constraints", "_add_special_request_constraints",
      "_add_employee_constraints", "_build_objective">>

\* a call sequence that goes on to the engine with no variables
SolveCalls_NoEarlyReturn(sv) ==
    <<"_build_variables">> \o ModelMethods \o <<"solver.Solve">>

\* the calls solve() makes: "if len(self.shift_vars) == 0: return" comes
\* right after _build_variables, before the model methods and the engine
SolveCalls(sv) ==
    IF sv = <<>> THEN <<"_build_variables">>
    ELSE <<"_build_variables">> \o ModelMethods \o <<"solver.Solve">>

\* RosterSolver.solve(): builds the variables, returns NO_VARIABLES when there
\* are none, else adds the constraints and returns what the CP engine finds:
\* any assignment that satisfies them (OPTIMAL or FEASIBLE), INFEASIBLE when
\* there is none, UNKNOWN when the time limit ends the search with no incumbent
Solve ==
    /\ pc = "built"
    /\ \E sv \in {BuildVariables} : \E sat \in {Solutions(Range(sv))} :
           /\ shift_vars' = sv
           /\ calls' = SolveCalls(sv)
           /\ IF sv = <<>>
              THEN /\ solver_status' = "NONE"
                   /\ result' = FailureResult("NO_VARIABLES")
              ELSE \/ \E a \in sat, status \in {"OPTIMAL", "FEASIBLE"} :
                         /\ solver_status' = status
                         /\ result' = Extracted(status, sv, a)
                   \/ /\ sat = {}
                      /\ solver_status' = "INFEASIBLE"
                      /\ result' = FailureResult("INFEASIBLE")
                   \/ /\ solver_status' = "UNKNOWN"
                      /\ result' = FailureResult("UNKNOWN")
    /\ pc' = "solved"
    /\ UNCHANGED <<Inputs, passes>>

\* one apply_trimming pass over the shifts and hours of a successful result
ApplyTrimming ==
    /\ pc = "solved"
    /\ result.success
    /\ passes < MaxPasses
    /\ LET out == apply_trimming(result.shifts, result.employeeHours)
       IN  result' = [result EXCEPT !.shifts = out.shifts,
                                    !.employeeHours = out.employeeHours]
    /\ passes' = passes + 1
    /\ UNCHANGED <<Inputs, shift_vars, solver_status, calls, pc>>

Next == Solve \/ ApplyTrimming

Spec == Init /\ [][Next]_vars

-----------------------------------------------------------------------------
(* Properties of the results *)

\* the indices of the result's shifts at one (shop, day) with one of the types
ResultShifts(shop_id, day_idx, types) ==
    {i \in 1..Len(result.shifts) : /\ result.shifts[i].shopId = shop_id
                                   /\ result.shifts[i].dayIndex = day_idx
                                   /\ result.shifts[i].shiftType \in types}

\* the indices of the result's shifts of one employee
ShiftsOfEmployee(emp_id) ==
    {i \in 1..Len(result.shifts) : result.shifts[i].employeeId = emp_id}

AllTypes == {"AM", "PM", "FULL", "AM_TRIMMED"}

\* C1: in every successful result, for every demand entry, in every coverage
\* mode and for solo and non-solo shops alike, the AM (and AM_TRIMMED) shifts
\* plus the FULL shifts number at least minAM and the PM shifts plus the FULL
\* shifts at least minPM, FULL counting when fullDayCountsAsBoth is true
C1_MinimumCoverage ==
    result.success =>
        \A i \in 1..Len(demands) :
            LET d == demands[i]
                full == IF d.full_day_counts_as_both
                        THEN Cardinality(ResultShifts(d.shop_id, d.day_index, {"FULL"}))
                        ELSE 0
                am_cov == Cardinality(ResultShifts(d.shop_id, d.day_index,
                                                   {"AM", "AM_TRIMMED"})) + full
                pm_cov == Cardinality(ResultShifts(d.shop_id, d.day_index, {"PM"})) + full
            IN  am_cov >= d.min_am /\ pm_cov >= d.min_pm

\* C2: in every successful result every employee has at most one shift per
\* day of the week, counted across all shops and all shift types
C2_OneShiftPerDay ==
    result.success =>
        \A i, j \in 1..Len(result.shifts) :
            (/\ result.shifts[i].employeeId = result.shifts[j].employeeId
             /\ result.shifts[i].dayIndex = result.shifts[j].dayIndex) => i = j

\* a successful result with a shift of an employee who had variables at two
\* shops and of several types on the day of the shift
C2_Witness ==
    /\ result.success
    /\ \E i \in 1..Len(result.shifts) :
          \E k1, k2 \in Range(shift_vars) :
              /\ k1[1] = result.shifts[i].employeeId
              /\ k2[1] = result.shifts[i].employeeId
              /\ TemplateById(k1[2]).day_index = result.shifts[i].dayIndex
              /\ TemplateById(k2[2]).day_index = result.shifts[i].dayIndex
              /\ TemplateById(k1[2]).shop_id # TemplateById(k2[2]).shop_id
              /\ TemplateById(k1[2]).shift_type # TemplateById(k2[2]).shift_type

\* C3: for every special request of the input, the result is either not
\* successful or contains a shift of that employee at that shop on that day
\* of the requested type; the request is never silently dropped
C3_SpecialRequestKept ==
    pc = "solved" =>
        \A i \in 1..Len(special_demands) :
            LET sp == special_demands[i]
            IN  \/ ~result.success
                \/ \E j \in ResultShifts(sp.shop_id, sp.day_index, AllTypes) :
                      /\ result.shifts[j].employeeId = sp.employee_id
                      /\ TypeMatches(sp.shift_type, result.shifts[j].shiftType)

\* the request gives the employee an approved leave whose dates include the
\* day (days are counted from weekStart)
ApprovedLeaveOn(emp_id, day_idx) ==
    \E i \in 1..Len(request.employees) :
        /\ request.employees[i].id = emp_id
        /\ \E j \in 1..Len(request.employees[i].leaveRequests) :
              LET l == request.employees[i].leaveRequests[j]
              IN  /\ l.status = "approved"
                  /\ l.startDate <= day_idx
                  /\ day_idx <= l.endDate

\* the request lists the day among the fixed days off of the employee, under
\* a key that equals the employee's name once both are lowercased
FixedDayOffOn(emp_id, day_idx) ==
    \E i \in 1..Len(request.employees) :
        /\ request.employees[i].id = emp_id
        /\ \E j \in 1..Len(request.fixedDaysOff) :
              /\ Lower(request.fixedDaysOff[j].key) = Lower(request.employees[i].name)
              /\ \E n \in 1..Len(request.fixedDaysOff[j].days) :
                    LET d == request.fixedDaysOff[j].days[n]
                    IN  \/ d.kind = "int" /\ d.idx = day_idx
                        \/ d.kind = "str" /\ DAY_NAME_MAP(Lower(d.name).text) = day_idx

\* C4: no successful result contains a shift of an employee on a day of an
\* approved leave of that employee, or on a day listed in the employee's
\* fixed days off
C4_NoShiftOnLeaveOrDayOff ==
    result.success =>
        \A i \in 1..Len(result.shifts) :
            /\ ~ApprovedLeaveOn(result.shifts[i].employeeId, result.shifts[i].dayIndex)
            /\ ~FixedDayOffOn(result.shifts[i].employeeId, result.shifts[i].dayIndex)

\* a successful result with a shift on a day on which another employee, who
\* also has fixed days off, is on approved leave
C4_Witness ==
    /\ result.success
    /\ \E i \in 1..Len(result.shifts), e \in 1..Len(request.employees) :
          /\ ApprovedLeaveOn(request.employees[e].id, result.shifts[i].dayIndex)
          /\ \E d \in DayIndexes : FixedDayOffOn(request.employees[e].id, d)
          /\ ~FixedDayOffOn(request.employees[e].id, result.shifts[i].dayIndex)

\* C5: in every successful result the exact durations (end minus start, in
\* minutes) of the shifts of a student sum to at most 20 hours
C5_StudentExactHours ==
    result.success =>
        \A e \in 1..Len(employees) :
            employees[e].employment_type = "student" =>
                LET mine == SelectSeq(result.shifts,
                                LAMBDA sh : sh.employeeId = employees[e].id)
                IN  SumSeq([i \in 1..Len(mine) |->
                               _time_to_minutes(mine[i].endTime)
                               - _time_to_minutes(mine[i].startTime)])
                        <= STUDENT_MAX_HOURS * 60

\* C6: in every successful result every employee is assigned on at most 6 of
\* the 7 days
C6_OneDayOff ==
    result.success =>
        \A e \in 1..Len(employees) :
            Cardinality({result.shifts[i].dayIndex :
                            i \in ShiftsOfEmployee(employees[e].id)}) <= 6

\* a successful result in which an employee who had a variable on each of the
\* 7 days works on exactly 6 of them
C6_Witness ==
    /\ result.success
    /\ \E e \in 1..Len(employees) :
          /\ \A d \in DayIndexes : \E k \in Range(shift_vars) :
                k[1] = employees[e].id /\ TemplateById(k[2]).day_index = d
          /\ Cardinality({result.shifts[i].dayIndex :
                             i \in ShiftsOfEmployee(employees[e].id)}) = 6

\* C7: in every successful result the distinct employees assigned at a
\* (shop, day) number at most the maxStaff of its demand entry, whatever the
\* value of maxStaff and the coverage mode
C7_MaxStaff ==
    result.success =>
        \A i \in 1..Len(demands) :
            Cardinality({result.shifts[j].employeeId :
                            j \in ResultShifts(demands[i].shop_id, demands[i].day_index,
                                               AllTypes)})
                <= demands[i].max_staff

\* C8: in every successful result at most 2 FULL shifts are assigned on any
\* one day at a shop that is not solo
C8_FullCap ==
    result.success =>
        \A i \in 1..Len(demands) :
            ~CanBeSolo(demands[i].shop_id) =>
                Cardinality(ResultShifts(demands[i].shop_id, demands[i].day_index,
                                         {"FULL"})) <= 2

\* C9: in every successful result, at a solo shop on any day: when a FULL
\* shift is assigned no AM and no PM shift is assigned, and the shifts of the
\* day number at most 2
C9_SoloExclusive ==
    result.success =>
        \A i \in 1..Len(demands) :
            CanBeSolo(demands[i].shop_id) =>
                LET at(types) == ResultShifts(demands[i].shop_id, demands[i].day_index, types)
                IN  /\ at({"FULL"}) # {} => at({"AM", "AM_TRIMMED", "PM"}) = {}
                    /\ Cardinality(at(AllTypes)) <= 2

\* C10: a trimming pass never leaves a (shop, date) group unmanned: a shift
\* the pass did not change still starts at the group's earliest start of
\* before the pass, and one still ends at its latest end of before the pass
C10_NeverUnmanned ==
    [][passes' = passes + 1 =>
          \A i \in 1..Len(result.shifts) :
              LET group == DayShifts(result.shifts, i)
                  kept == {j \in group : result'.shifts[j] = result.shifts[j]}
              IN  /\ \E j \in kept : \A l \in group :
                        _time_to_minutes(result.shifts[j].startTime)
                            <= _time_to_minutes(result.shifts[l].startTime)
                  /\ \E j \in kept : \A l \in group :
                        _time_to_minutes(result.shifts[j].endTime)
                            >= _time_to_minutes(result.shifts[l].endTime)]_vars

\* C15: solve returns success=true exactly when the CP engine status is
\* OPTIMAL or FEASIBLE; for every other engine status it returns
\* success=false with no shifts, no employee hours and the engine's status
\* name as status
C15_SuccessIffSolved ==
    (pc = "solved" /\ solver_status # "NONE") =>
        /\ result.success <=> solver_status \in {"OPTIMAL", "FEASIBLE"}
        /\ solver_status \notin {"OPTIMAL", "FEASIBLE"} =>
              /\ ~result.success
              /\ result.shifts = <<>>
              /\ result.employeeHours = <<>>
              /\ result.status = solver_status

\* C16: every result returned by solve has a status that is one of OPTIMAL,
\* FEASIBLE, INFEASIBLE, ERROR
C16_FourStatuses ==
    pc = "solved" => result.status \in {"OPTIMAL", "FEASIBLE", "INFEASIBLE", "ERROR"}

\* C16 as amended: every result returned by solve has a status that is one
\* of OPTIMAL, FEASIBLE, INFEASIBLE, UNKNOWN, MODEL_INVALID, NO_VARIABLES,
\* ERROR
C16_StatusNames ==
    pc = "solved" =>
        result.status \in {"OPTIMAL", "FEASIBLE", "INFEASIBLE", "UNKNOWN",
                           "MODEL_INVALID", "NO_VARIABLES", "ERROR"}

\* solve has returned without a roster, with a status outside the four
C16_Witness ==
    /\ pc = "solved"
    /\ ~result.success
    /\ result.status \in {"NO_VARIABLES", "UNKNOWN"}

\* C17: a request without weekStart, or with a weekStart that is not a date,
\* is rejected before any model is solved: solve never returns for it (the
\* requests of the model all carry the ids and names of shops and employees)
C17_InvalidInputRejected ==
    (WeekStartMissing(request) \/ ~strptime_ok(request.weekStart)) => pc # "solved"

\* C18: an approved leave request removes the employee's variables for
\* exactly the days of the week inside its [start_date, end_date] range: an
\* employee who passes the other eligibility tests for a template has its
\* variable if and only if the template's day is in no approved leave range
C18_LeaveExactDays ==
    pc = "solved" =>
        \A e \in 1..Len(employees), t \in 1..Len(templates) :
            (/\ templates[t].shop_id \in EmpShops(employees[e])
             /\ ~OnFixedDayOff(employees[e], templates[t])
             /\ ~(employees[e].am_only /\ templates[t].shift_type \in {"PM", "FULL"}))
            => (<<employees[e].id, templates[t].id>> \in Range(shift_vars)
                   <=> ~ApprovedLeaveOn(employees[e].id, templates[t].day_index))

\* the request lists the employee's name among the AM-only employees
FlaggedAmOnly(emp_id) ==
    \E i \in 1..Len(request.employees) :
        /\ request.employees[i].id = emp_id
        /\ request.employees[i].name \in request.amOnlyEmployees

\* C19: in every successful result an employee flagged AM-only has only
\* AM-type shifts, never a PM or a FULL shift, even when a special request
\* names the employee for a PM or FULL shift
C19_AmOnly ==
    result.success =>
        \A i \in 1..Len(result.shifts) :
            FlaggedAmOnly(result.shifts[i].employeeId)
                => result.shifts[i].shiftType \in {"AM", "AM_TRIMMED"}

\* a successful result with a shift of an AM-only employee whom a special
\* request names for a PM or FULL shift at that shop on that day
C19_Witness ==
    /\ result.success
    /\ \E i \in 1..Len(result.shifts), j \in 1..Len(special_demands) :
          /\ FlaggedAmOnly(result.shifts[i].employeeId)
          /\ special_demands[j].employee_id = result.shifts[i].employeeId
          /\ special_demands[j].shop_id = result.shifts[i].shopId
          /\ special_demands[j].day_index = result.shifts[i].dayIndex
          /\ special_demands[j].shift_type \in {"PM", "FULL"}

\* the request excludes the employee: by id, as inactive, or by the
\* excludeFromRoster flag
LeftOut(emp_id) ==
    \E i \in 1..Len(request.employees) :
        /\ request.employees[i].id = emp_id
        /\ \/ emp_id \in request.excludedEmployeeIds
           \/ ~request.employees[i].isActive
           \/ request.employees[i].excludeFromRoster

\* C20: no result contains a shift of an employee whose id is excluded, who
\* is inactive or who is flagged excludeFromRoster, even when the employee
\* is listed in a shop's assignedEmployees or named in its special shifts
C20_NoShiftForLeftOut ==
    pc = "solved" =>
        \A i \in 1..Len(result.shifts) : ~LeftOut(result.shifts[i].employeeId)

\* a roster for a request in which a left-out employee is assigned to a shop
\* of the roster and named in one of its special shifts
C20_Witness ==
    /\ result.success
    /\ \E i \in 1..Len(result.shifts), n \in 1..Len(request.shops) :
          /\ request.shops[n].id = result.shifts[i].shopId
          /\ \E x \in Range(request.shops[n].assignedEmployees) :
                /\ LeftOut(x)
                /\ \E j \in 1..Len(request.shops[n].specialShifts) :
                      request.shops[n].specialShifts[j].employeeId = x

\* C25: in every successful result, for every demand entry flagged
\* mandatory, the AM coverage is at least targetAM and the PM coverage at
\* least targetPM on that (shop, day)
C25_MandatoryMeetsTarget ==
    result.success =>
        \A i \in 1..Len(demands) :
            LET d == demands[i]
                full == IF d.full_day_counts_as_both
                        THEN Cardinality(ResultShifts(d.shop_id, d.day_index, {"FULL"}))
                        ELSE 0
                am_cov == Cardinality(ResultShifts(d.shop_id, d.day_index,
                                                   {"AM", "AM_TRIMMED"})) + full
                pm_cov == Cardinality(ResultShifts(d.shop_id, d.day_index, {"PM"})) + full
            IN  d.is_mandatory => am_cov >= d.target_am /\ pm_cov >= d.target_pm

\* C26: in every successful result no employee has a FULL shift on two
\* consecutive days d and d + 1, at the same shop or at different shops
C26_NoConsecutiveFull ==
    result.success =>
        \A i, j \in 1..Len(result.shifts) :
            ~(/\ result.shifts[i].employeeId = result.shifts[j].employeeId
              /\ result.shifts[i].shiftType = "FULL"
              /\ result.shifts[j].shiftType = "FULL"
              /\ result.shifts[j].dayIndex = result.shifts[i].dayIndex + 1)

\* a satisfies the coverage, special-request, one-shift-per-day,
\* six-shifts-per-week and student-cap constraints, and every bound the
\* model places on anything but the hours of a non-student
AllButHours(m, a) ==
    /\ \A i \in ActiveEmployees :
          /\ OneShiftPerDay(m.day_shifts[i], a)
          /\ OneDayOff(m.all_shifts[i], a)
          /\ StudentCap(m.hours_terms[i], a, employees[i])
          /\ employees[i].employment_type = "student"
                => HoursDomain(m.hours_terms[i], a, employees[i])
    /\ \A i \in 1..Len(demands) :
          /\ MinimumStaffing(m.coverage[i], a, demands[i])
          /\ MaxStaff(m.coverage[i], a, demands[i])
          /\ OverCoverageDomain(m.coverage[i], a, demands[i])
    /\ \A i \in 1..Len(special_demands) : SpecialRequest(m.special[i], a)

\* C27: the weekly hours of a non-student are bounded by no hard
\* constraint: every assignment of the variables that satisfies the
\* coverage, special-request, one-shift-per-day, six-shifts-per-week and
\* student-cap constraints is feasible for the model solve() builds
C27_HoursOnlySoft ==
    pc = "built" =>
        LET V == Range(BuildVariables)
            m == BuildModel(V)
        IN  \A a \in SUBSET V : AllButHours(m, a) => Feasible(m, a)

\* the positions of a method in the calls of solve()
CallsOf(method) == {i \in 1..Len(calls) : calls[i] = method}

\* C28: solve() builds the variables first; with no variable it returns
\* success = false with empty shifts and employeeHours before any
\* constraint method is called and without calling the engine; otherwise
\* every constraint method and the objective are called and the engine is
\* called exactly once, after them
C28_NoVariablesReturnsEarly ==
    pc = "solved" =>
        /\ calls # <<>> /\ calls[1] = "_build_variables"
        /\ CallsOf("_build_variables") = {1}
        /\ IF shift_vars = <<>>
           THEN /\ ~result.success
                /\ result.shifts = <<>>
                /\ result.employeeHours = <<>>
                /\ Len(calls) = 1
           ELSE /\ Cardinality(CallsOf("solver.Solve")) = 1
                /\ \A k \in 1..Len(ModelMethods) :
                      /\ Cardinality(CallsOf(ModelMethods[k])) = 1
                      /\ \A i \in CallsOf(ModelMethods[k]), j \in CallsOf("solver.Solve") :
                            1 < i /\ i < j

\* solve() has returned for a request whose employees got no variable
C28_Witness ==
    /\ pc = "solved"
    /\ shift_vars = <<>>
    /\ Len(employees) > 0
    /\ Len(templates) > 0
    /\ result.status = "NO_VARIABLES"

-----------------------------------------------------------------------------
(* Properties of the template and demand builders *)

\* the indices of the templates of one (shop, day)
TemplatesAt(shop_id, day_idx) ==
    {i \in 1..Len(templates) : /\ templates[i].shop_id = shop_id
                               /\ templates[i].day_index = day_idx}

\* the shop is active and open on the day
OpenDay(config, day_idx) ==
    config.isActive /\ ~(day_idx = 6 /\ config.sunday.closed)

\* C21: for every active shop and open day the set of template types is
\* fixed by the coverage mode alone: {AM, PM} for split, {FULL} for
\* fullDayOnly, {AM, PM, FULL} for flexible, whatever the trimming config
C21_TemplateTypesByMode ==
    \A n \in 1..Len(request.shops), day_idx \in DayIndexes :
        LET config == request.shops[n]
            mode == CoverageModeOf(config)
        IN  OpenDay(config, day_idx) =>
                {templates[i].shift_type : i \in TemplatesAt(config.id, day_idx)}
                    = IF mode = "split" THEN {"AM", "PM"}
                      ELSE IF mode = "fullDayOnly" THEN {"FULL"}
                      ELSE {"AM", "PM", "FULL"}

\* C22: with o and c the day's open and close time in minutes (the custom
\* Sunday hours when enabled) and m = (o + c) / 2, an AM template spans
\* [o, m], a PM template [m, c], a FULL template [o, c]; every template has
\* start < end and hours equal to end minus start
C22_TemplateSpans ==
    \A i \in 1..Len(templates) :
        LET t == templates[i]
            config == shop_configs[t.shop_id]
            custom == config.sunday.customHours
            useCustom == t.day_index = 6 /\ custom.enabled
            o == parse_time(IF useCustom THEN custom.openTime ELSE config.openTime)
            c == parse_time(IF useCustom THEN custom.closeTime ELSE config.closeTime)
            m == (o + c) \div 2
            start == parse_time(t.start_time)
            end == parse_time(t.end_time)
        IN  /\ t.shift_type = "AM" => start = o /\ end = m
            /\ t.shift_type = "PM" => start = m /\ end = c
            /\ t.shift_type = "FULL" => start = o /\ end = c
            /\ start < end
            /\ t.hours = 5 * (end - start)

\* the indices of the demand entries of one (shop, day)
DemandsAt(shop_id, day_idx) ==
    {i \in 1..Len(demands) : /\ demands[i].shop_id = shop_id
                             /\ demands[i].day_index = day_idx}

\* C23: for a shop whose Sunday is closed, on Sunday, and for an inactive
\* shop on every day, there is no template and no demand entry, and no
\* successful result has a shift at that shop on that day; every other
\* (shop, day) has exactly one demand entry
C23_ClosedDaysEmpty ==
    \A n \in 1..Len(request.shops), day_idx \in DayIndexes :
        LET config == request.shops[n]
        IN  IF OpenDay(config, day_idx)
            THEN Cardinality(DemandsAt(config.id, day_idx)) = 1
            ELSE /\ TemplatesAt(config.id, day_idx) = {}
                 /\ DemandsAt(config.id, day_idx) = {}
                 /\ result.success => ResultShifts(config.id, day_idx, AllTypes) = {}

\* a roster with a shift at a shop that is closed on Sunday, for a request
\* that also has an inactive shop an employee could work at
C23_Witness ==
    /\ result.success
    /\ \E n \in 1..Len(request.shops), i \in 1..Len(result.shifts) :
          /\ request.shops[n].isActive
          /\ request.shops[n].sunday.closed
          /\ result.shifts[i].shopId = request.shops[n].id
    /\ \E n \in 1..Len(request.shops), e \in 1..Len(employees) :
          /\ ~request.shops[n].isActive
          /\ request.shops[n].id \in EmpShops(employees[e])

\* the per-day staffing entry a demand entry is derived from satisfies
\* min <= target <= maxStaff on both halves, an absent target standing for
\* the minimum and an absent legacy maxStaff for 10
EntryOrdered(config, day_idx) ==
    LET dc == DayConfig(config.staffingConfig, day_idx)
        dr == DayReq(config, day_idx)
    IN  IF dc.present
        THEN LET ta == IF dc.targetAM = None THEN dc.minAM ELSE dc.targetAM
                 tp == IF dc.targetPM = None THEN dc.minPM ELSE dc.targetPM
             IN  /\ dc.minAM <= ta /\ ta <= dc.maxStaff
                 /\ dc.minPM <= tp /\ tp <= dc.maxStaff
        ELSE IF dr.present
        THEN LET mx == IF dr.maxStaff \in {None, 0} THEN 10 ELSE dr.maxStaff
             IN  dr.amStaff <= mx /\ dr.pmStaff <= mx
        ELSE TRUE

\* C24: every demand entry has minAM <= targetAM <= maxStaff and
\* minPM <= targetPM <= maxStaff whenever the staffing entry it is derived
\* from has, also on Sunday after the maxStaff override and when the
\* targets are absent
C24_DemandOrdered ==
    \A i \in 1..Len(demands) :
        LET d == demands[i]
        IN  EntryOrdered(shop_configs[d.shop_id], d.day_index) =>
                /\ d.min_am <= d.target_am /\ d.target_am <= d.max_staff
                /\ d.min_pm <= d.target_pm /\ d.target_pm <= d.max_staff

\* a Sunday demand entry whose maxStaff was lowered below the entry's minimum
\* by the Sunday override, next to a demand entry derived from a staffing
\* entry without targets
C24_Witness ==
    /\ \E i \in 1..Len(demands) :
          LET d == demands[i]
              config == shop_configs[d.shop_id]
              dc == DayConfig(config.staffingConfig, d.day_index)
          IN  /\ d.day_index = 6
              /\ config.sunday.maxStaff # None
              /\ dc.present
              /\ EntryOrdered(config, 6)
              /\ dc.minAM > config.sunday.maxStaff
              /\ d.max_staff = config.sunday.maxStaff
    /\ \E i \in 1..Len(demands) :
          LET dc == DayConfig(shop_configs[demands[i].shop_id].staffingConfig,
                              demands[i].day_index)
          IN  dc.present /\ dc.targetAM = None /\ dc.targetPM = None

-----------------------------------------------------------------------------
(* Properties of the trimming pass *)

\* the shifts meet minAM and minPM of every demand entry
MeetsMinima(shifts) ==
    \A i \in 1..Len(demands) :
        LET d == demands[i]
            at(types) == Cardinality({j \in 1..Len(shifts) :
                             /\ shifts[j].shopId = d.shop_id
                             /\ shifts[j].dayIndex = d.day_index
                             /\ shifts[j].shiftType \in types})
            full == IF d.full_day_counts_as_both THEN at({"FULL"}) ELSE 0
        IN  /\ at({"AM", "AM_TRIMMED"}) + full >= d.min_am
            /\ at({"PM"}) + full >= d.min_pm

\* every (shop, day) has minAM AM-covering shifts that begin when the shop
\* opens and minStaffAtClose shifts that last until it closes
StaffedAtOpenAndClose(shifts) ==
    \A i \in 1..Len(demands) :
        LET d == demands[i]
            config == shop_configs[d.shop_id]
            here == {j \in 1..Len(shifts) : /\ shifts[j].shopId = d.shop_id
                                           /\ shifts[j].dayIndex = d.day_index}
        IN  /\ Cardinality({j \in here :
                   /\ shifts[j].shiftType \in {"AM", "AM_TRIMMED", "FULL"}
                   /\ shifts[j].startTime = config.openTime}) >= d.min_am
            /\ Cardinality({j \in here : shifts[j].endTime = config.closeTime})
                   >= config.minStaffAtClose

\* C11: when the solver output meets the coverage minima, after the trim pass
\* every (shop, day) still has at least minAM AM-covering shifts that begin
\* at the opening time and at least minStaffAtClose shifts that last until
\* the closing time
C11_TrimKeepsMinima ==
    [][(passes = 0 /\ passes' = 1 /\ MeetsMinima(result.shifts))
          => StaffedAtOpenAndClose(result'.shifts)]_vars

\* C12: the trim pass is idempotent: a second pass leaves the start times,
\* end times, hours and isTrimmed flags of the shifts and the employee hour
\* totals as the first pass left them
C12_TrimIdempotent ==
    [][(passes = 1 /\ passes' = 2) => result' = result]_vars

\* C13: in the successful output and after any number of trim passes, the
\* employeeHours entry of every employee equals the sum of the hours of the
\* employee's shifts (0 for an employee with no shift)
C13_HoursAreShiftSums ==
    result.success =>
        \A id \in DOMAIN result.employeeHours :
            LET mine == SelectSeq(result.shifts, LAMBDA sh : sh.employeeId = id)
            IN  result.employeeHours[id] = SumSeq([i \in 1..Len(mine) |-> mine[i].hours])

\* C14: the trim pass changes no shift that lies on a Sunday, at a shop whose
\* trimming is not enabled, on a solo day, or on a (shop, day) with 2 or
\* fewer staff
C14_TrimFrame ==
    [][passes' = passes + 1 =>
          \A i \in 1..Len(result.shifts) :
              LET sh == result.shifts[i]
                  staff == {result.shifts[j].employeeId : j \in DayShifts(result.shifts, i)}
              IN  (\/ sh.dayIndex = 6
                   \/ ~shop_configs[sh.shopId].trimming.enabled
                   \/ CanBeSolo(sh.shopId)
                   \/ Cardinality(staff) <= 2)
                  => result'.shifts[i] = sh]_vars

\* the (shop, date) group of shift i has at most one AM-type shift and no FULL
QuietGroup(shifts, i) ==
    Cardinality(Openers(shifts, i)) <= 1 /\ ~HasFull(shifts, i)

\* the shifts of the group of shift i, among the given ones, that a pass changed
ChangedIn(old, new, group) == {j \in group : new[j] # old[j]}

\* C29: a pass leaves every shift of a group with at most one AM-type shift
\* and no FULL shift unchanged, and the hours entry of an employee all of
\* whose shifts are in such groups; in any group it changes at most one
\* AM-type shift, whose end stays, and at most one PM or FULL shift, whose
\* start stays and whose new end is not before 12:00
C29_TrimFrameByGroup ==
    [][passes' = passes + 1 =>
        LET old == result.shifts
            new == result'.shifts
        IN  /\ Len(new) = Len(old)
            /\ \A i \in 1..Len(old) :
                  /\ QuietGroup(old, i) => new[i] = old[i]
                  /\ Cardinality(ChangedIn(old, new, Openers(old, i))) <= 1
                  /\ Cardinality(ChangedIn(old, new, Closers(old, i))) <= 1
                  /\ \A j \in ChangedIn(old, new, Openers(old, i)) :
                        new[j] = [old[j] EXCEPT !.startTime = new[j].startTime,
                                                !.hours = new[j].hours,
                                                !.isTrimmed = new[j].isTrimmed]
                  /\ \A j \in ChangedIn(old, new, Closers(old, i)) :
                        /\ new[j] = [old[j] EXCEPT !.endTime = new[j].endTime,
                                                   !.hours = new[j].hours,
                                                   !.isTrimmed = new[j].isTrimmed]
                        /\ _time_to_minutes(new[j].endTime) >= _time_to_minutes(<<12, 0>>)
            /\ \A id \in DOMAIN result.employeeHours :
                  (\A i \in 1..Len(old) : old[i].employeeId = id => QuietGroup(old, i))
                      => result'.employeeHours[id] = result.employeeHours[id]
    ]_vars

\* after one pass: a shift of a group with at most one AM-type shift and no
\* FULL shift, next to a shift the pass trimmed in another group
C29_Witness ==
    /\ passes = 1
    /\ \E i, j \in 1..Len(result.shifts) :
          /\ QuietGroup(result.shifts, i)
          /\ ~result.shifts[i].isTrimmed
          /\ result.shifts[j].isTrimmed

\* the time from a shift's start to its end, as an hours value
Span(sh) == 5 * (_time_to_minutes(sh.endTime) - _time_to_minutes(sh.startTime))

\* C30 as stated: after one pass over solver output a shift has isTrimmed
\* set if and only if its hours are lower than before the pass, and every
\* shift's hours equal its end time minus its start time
C30_TrimmedFlagAndExactHours ==
    [][(passes = 0 /\ passes' = 1) =>
        \A i \in 1..Len(result.shifts) :
            /\ result'.shifts[i].isTrimmed
                  <=> result'.shifts[i].hours < result.shifts[i].hours
            /\ result'.shifts[i].hours = Span(result'.shifts[i])
    ]_vars

\* C30, amended: after one pass over solver output a shift has isTrimmed set
\* if and only if its hours are lower than before the pass, and every
\* shift's hours equal its end time minus its start time to two decimal
\* places (exactly for the shifts the pass did not change)
C30_TrimmedFlagAndRoundedHours ==
    [][(passes = 0 /\ passes' = 1) =>
        \A i \in 1..Len(result.shifts) :
            /\ result'.shifts[i].isTrimmed
                  <=> result'.shifts[i].hours < result.shifts[i].hours
            /\ Round2(result'.shifts[i].hours) = Round2(Span(result'.shifts[i]))
            /\ ~result'.shifts[i].isTrimmed
                  => result'.shifts[i].hours = Span(result'.shifts[i])
    ]_vars

\* after one pass: a trimmed shift whose span is not a whole number of
\* hundredths of an hour
C30_Witness ==
    /\ passes = 1
    /\ \E i \in 1..Len(result.shifts) :
          /\ result.shifts[i].isTrimmed
          /\ result.shifts[i].hours # Span(result.shifts[i])
          /\ Round2(result.shifts[i].hours) = Round2(Span(result.shifts[i]))

====
